---- MODULE Spec2Model ----
(***************************************************************************)
(* Pairs-trading bot: Cycle Orchestrator (bot.py), Risk & Position        *)
(* Lifecycle Manager (risk_manager.py) and the signal rules of the        *)
(* Signal Engine (strategy_manager.py).                                    *)
(*                                                                         *)
(* Units.  z-scores are integers in hundredths (1.2 is 120).  Prices and   *)
(* money are integers in cents (100.00 is 10000).  Funding rates are in    *)
(* hundredths of a percent (0.06% is 6).  TRAILING_STOP_PCT is in tenths   *)
(* of a percent (1.5% is 15).                                              *)
(***************************************************************************)
EXTENDS Integers, Sequences, FiniteSets, TLC

VARIABLES
    pc,               \* position of run(): connect, cycle, gather, process, entry, sleep, done
    exit_kind,        \* how run() ended: none, cancelled, connect_error, error
    connected,        \* ExchangeHandler._exchange is set
    close_called,     \* exchange.close() was awaited by run()'s finally
    positions,        \* RiskManager._positions: pair-leg id -> PositionState
    equity,           \* run_cycle local: equity
    positions_value,  \* run_cycle local: positions_value
    results,          \* run_cycle local: results of asyncio.gather, one per pair
    idx,              \* run_cycle local: index of the zip loop
    account_error,    \* run_cycle returned from the except branch of lines 230-232
    res,              \* run_cycle local: the PairAnalysis being handled (NoRes between elements)
    was_open,         \* the test of bot.py:250 for the pair being handled
    calls,            \* Market Gateway / registry / trade-log calls made by the last handler
    last_ret,         \* the last direct update_trailing or remove_position call
    seen,             \* per registered id: max and min price passed inside the activation band
    oi_cache,         \* PairsTradingBot._oi_cache: symbol -> the open interest stored last
    task,             \* per analysis task of the gather: its position and its locals
    fetch,            \* analyze_sector's candle fetches: which fetch, its attempt and its events
    exchange_positions, \* the exchange's position book: symbol -> signed contracts
    args,             \* the arguments of a call of a pure function
    ret               \* the value that call returned: <<>> before the call, <<v>> after it

\* the variables that only the specifications of single components use
aux == <<oi_cache, task, fetch, exchange_positions, args, ret>>

vars == <<pc, exit_kind, connected, close_called, positions, equity,
          positions_value, results, idx, account_error, res, was_open, calls,
          last_ret, seen, aux>>

-----------------------------------------------------------------------------
(* config.py *)

LEVERAGE == 5
RISK_PER_TRADE_PCT == 1
MAX_BASKET_RISK_PCT == 40
MAX_FUNDING_RATE_PCT == 6
TRAILING_STOP_PCT == 15
ZSCORE_ENTRY_THRESHOLD == 120
ZSCORE_EXIT_TP == 0
ZSCORE_EXIT_SL == 300
ZSCORE_TRAILING_ACTIVATION == 50
ZSCORE_WINDOW == 20
TP_WINDOW == 10

\* get_pairs_by_sector(): one sector whose three symbols give all 2-combinations
Sector == "L1"
pairs_by_sector == << <<"SOL", "AVAX">>, <<"SOL", "NEAR">>, <<"AVAX", "NEAR">> >>
NPairs == Len(pairs_by_sector)
PairIdx == 1..NPairs
Symbols == {"SOL", "AVAX", "NEAR"}

-----------------------------------------------------------------------------
(* Python values *)

None == "None"
\* an Optional number: <<>> is None, <<v>> is the value v
NoneVal == <<>>
Some(v) == <<v>>
OrZero(x) == IF x = NoneVal THEN 0 ELSE x[1]
Abs(x) == IF x < 0 THEN -x ELSE x
Max(a, b) == IF a >= b THEN a ELSE b
Min(a, b) == IF a <= b THEN a ELSE b

\* pair_id = f"{sector}_{s1}_{s2}" and pair_id + "_2"
PairId(sector, s1, s2) == <<sector, s1, s2>>
Leg2Id(pair_id) == Append(pair_id, "_2")
PairIdOf(i) == PairId(Sector, pairs_by_sector[i][1], pairs_by_sector[i][2])
LegIds == UNION {{PairIdOf(i), Leg2Id(PairIdOf(i))} : i \in PairIdx}

-----------------------------------------------------------------------------
(* strategy_manager.py *)

\* the thresholds themselves taken as a signal
get_zscore_signal_inclusive(zscore) ==
    IF zscore >= ZSCORE_ENTRY_THRESHOLD THEN "short_long"
    ELSE IF zscore <= -ZSCORE_ENTRY_THRESHOLD THEN "long_short"
    ELSE None

get_zscore_signal(zscore) ==
    IF zscore > ZSCORE_ENTRY_THRESHOLD THEN "short_long"
    ELSE IF zscore < -ZSCORE_ENTRY_THRESHOLD THEN "long_short"
    ELSE None

\* the stop-loss test placed before the take-profit test
check_exit_sl_first(zscore, zscore_exit_tp, zscore_exit_sl) ==
    IF zscore >= zscore_exit_sl \/ zscore <= -zscore_exit_sl THEN "sl"
    ELSE IF Abs(zscore - zscore_exit_tp) < TP_WINDOW THEN "tp"
    ELSE None

\* check_exit of a StrategyManager built with the given exit thresholds
check_exit_of(zscore, zscore_exit_tp, zscore_exit_sl) ==
    IF Abs(zscore - zscore_exit_tp) < TP_WINDOW THEN "tp"
    ELSE IF zscore >= zscore_exit_sl \/ zscore <= -zscore_exit_sl THEN "sl"
    ELSE None

\* check_exit of the bot's StrategyManager, built with the thresholds of config.py
check_exit(zscore) == check_exit_of(zscore, ZSCORE_EXIT_TP, ZSCORE_EXIT_SL)

\* calc_zscore, last element: rolling(w) gives NaN while fewer than w bars exist
calc_zscore_last(bars, zscore) ==
    IF bars < ZSCORE_WINDOW THEN NoneVal ELSE Some(zscore)

\* the dict returned by analyze_pair; the filters are evaluated only under a signal
analyze_pair(zscore, ema, rsi, oi) ==
    LET signal == get_zscore_signal(zscore)
    IN  [signal |-> signal,
         zscore |-> zscore,
         ema_ok |-> IF signal # None THEN ema ELSE TRUE,
         rsi_ok |-> IF signal # None THEN rsi ELSE TRUE,
         oi_ok  |-> IF signal # None THEN oi ELSE TRUE,
         exit   |-> check_exit(zscore)]

\* analyze_pair of two frames of the given number of bars, lines 199-207:
\* the last z-score, 0.0 for an empty series or NaN
analyze_pair_frames(bars, zscore, ema, rsi, oi) ==
    analyze_pair(OrZero(calc_zscore_last(bars, zscore)), ema, rsi, oi)

-----------------------------------------------------------------------------
(* risk_manager.py *)

PositionState(symbol, side, entry_price, entry_zscore, amount) ==
    [symbol |-> symbol, side |-> side, entry_price |-> entry_price,
     entry_zscore |-> entry_zscore, amount |-> amount,
     trailing_activated |-> FALSE, best_price |-> 0]

\* size = ((equity * r / 2) / 0.05) / price, floored at 0
calc_position_size(eq, price, risk_pct) ==
    LET rp == IF risk_pct # 0 THEN risk_pct ELSE RISK_PER_TRADE_PCT
        position_value == (eq * rp) \div 10
        size == IF price > 0 THEN position_value \div price ELSE 0
    IN  Max(0, size)

\* the cap itself counted as exceeded
check_basket_risk_strict(eq, open_positions_value, new_trade_value) ==
    LET total_exposure == open_positions_value + new_trade_value
    IN  IF eq > 0 THEN total_exposure * 100 < MAX_BASKET_RISK_PCT * eq
        ELSE 0 < MAX_BASKET_RISK_PCT

check_basket_risk(eq, open_positions_value, new_trade_value) ==
    LET total_exposure == open_positions_value + new_trade_value
    IN  IF eq > 0 THEN total_exposure * 100 <= MAX_BASKET_RISK_PCT * eq
        ELSE 0 <= MAX_BASKET_RISK_PCT

\* the size of the rate tested, whatever its sign
check_funding_rate_abs(funding_rate_pct, side) ==
    IF funding_rate_pct = NoneVal THEN TRUE
    ELSE IF side = "long" /\ Abs(funding_rate_pct[1]) > MAX_FUNDING_RATE_PCT THEN FALSE
    ELSE IF side = "short" /\ Abs(funding_rate_pct[1]) > MAX_FUNDING_RATE_PCT THEN FALSE
    ELSE TRUE

check_funding_rate(funding_rate_pct, side) ==
    IF funding_rate_pct = NoneVal THEN TRUE
    ELSE IF side = "long" /\ funding_rate_pct[1] > MAX_FUNDING_RATE_PCT THEN FALSE
    ELSE IF side = "short" /\ funding_rate_pct[1] < -MAX_FUNDING_RATE_PCT THEN FALSE
    ELSE TRUE

register_position(reg, pair_id, symbol, side, entry_price, entry_zscore, amount) ==
    [k \in DOMAIN reg \cup {pair_id} |->
        IF k = pair_id
        THEN PositionState(symbol, side, entry_price, entry_zscore, amount)
        ELSE reg[k]]

\* the sibling leg dropped together with the id
remove_position_pair(reg, pair_id) ==
    [k \in DOMAIN reg \ {pair_id, Leg2Id(pair_id)} |-> reg[k]]

remove_position(reg, pair_id) ==
    [k \in DOMAIN reg \ {pair_id} |-> reg[k]]

\* best_price ratcheted outside the activation band as well
TrailRatchet_any_band(pos, current_price, current_zscore) ==
    [pos EXCEPT
        !.trailing_activated =
            pos.trailing_activated \/ Abs(current_zscore) <= ZSCORE_TRAILING_ACTIVATION,
        !.best_price =
            IF pos.side = "long"
            THEN Max(pos.best_price, current_price)
            ELSE IF pos.best_price # 0
                 THEN Min(pos.best_price, current_price)
                 ELSE current_price]

\* lines 128-133: inside the activation band the position is activated and
\* best_price ratchets; any side other than "long" takes the else branch
TrailRatchet(pos, current_price, current_zscore) ==
    IF Abs(current_zscore) <= ZSCORE_TRAILING_ACTIVATION
    THEN [pos EXCEPT
            !.trailing_activated = TRUE,
            !.best_price =
                IF pos.side = "long"
                THEN Max(pos.best_price, current_price)
                ELSE IF pos.best_price # 0
                     THEN Min(pos.best_price, current_price)
                     ELSE current_price]
    ELSE pos

\* the stop distance taken from best_price instead of entry_price
stop_distance_of_best(pos) == (pos.best_price * TRAILING_STOP_PCT) \div 1000

\* lines 138-147: the stop comparison
stop_distance(pos) == (pos.entry_price * TRAILING_STOP_PCT) \div 1000

StopHit(pos, current_price) ==
    IF pos.side = "long"
    THEN current_price <= pos.best_price - stop_distance(pos)
    ELSE current_price >= pos.best_price + stop_distance(pos)

\* an unknown id answered with false
update_trailing_missing_false(reg, pair_id, current_price, current_zscore) ==
    IF pair_id \notin DOMAIN reg
    THEN [ret |-> "False", reg |-> reg]
    ELSE LET pos == TrailRatchet(reg[pair_id], current_price, current_zscore)
             reg2 == [reg EXCEPT ![pair_id] = pos]
         IN  IF ~pos.trailing_activated
             THEN [ret |-> None, reg |-> reg2]
             ELSE IF StopHit(pos, current_price)
                  THEN [ret |-> "True", reg |-> reg2]
                  ELSE [ret |-> "False", reg |-> reg2]

\* update_trailing: the returned value and the registry after the call
update_trailing(reg, pair_id, current_price, current_zscore) ==
    IF pair_id \notin DOMAIN reg
    THEN [ret |-> None, reg |-> reg]
    ELSE LET pos == TrailRatchet(reg[pair_id], current_price, current_zscore)
             reg2 == [reg EXCEPT ![pair_id] = pos]
         IN  IF ~pos.trailing_activated
             THEN [ret |-> None, reg |-> reg2]
             ELSE IF StopHit(pos, current_price)
                  THEN [ret |-> "True", reg |-> reg2]
                  ELSE [ret |-> "False", reg |-> reg2]

-----------------------------------------------------------------------------
(* Inputs: what the Market Gateway and the analysis can deliver *)

\* z-scores: long_short, take-profit, activation band, short_long, stop-loss
ZVals == {-150, 0, 30, 150, 300}
FilterVals == {<<TRUE, TRUE, TRUE>>, <<FALSE, TRUE, TRUE>>,
               <<TRUE, FALSE, TRUE>>, <<TRUE, TRUE, FALSE>>}
AnalysisVals ==
    {analyze_pair(z, TRUE, TRUE, TRUE) : z \in ZVals}
        \cup {analyze_pair(-150, f[1], f[2], f[3]) : f \in FilterVals}
\* last prices: a ticker of SOL may come without "last", which reads as 0
PriceVals(s) == IF s = "SOL" THEN {0, 10000} ELSE {10000}
\* fetch_ticker: <<>> when the call raises, else <<float(t.get("last", 0) or 0)>>
TickerVals(s) == {NoneVal} \cup {Some(p) : p \in PriceVals(s)}
\* fetch_funding_rate: None (also on error) or the rate in percent
FundingVals == {NoneVal, Some(-7), Some(7)}
EquityVals == {1000000}
PositionsValueVals == {0, 250000}
\* fetch_positions: lists of the symbols that have a position with contracts > 0
PositionLists ==
    {<<>>} \cup {<<a>> : a \in Symbols}
           \cup {s \in [1..2 -> Symbols] : s[1] # s[2]}
           \cup {s \in [1..3 -> Symbols] : Cardinality({s[1], s[2], s[3]}) = 3}

NoRes == [signal |-> None, zscore |-> 0, ema_ok |-> TRUE, rsi_ok |-> TRUE,
          oi_ok |-> TRUE, exit |-> None]
Call(op, arg) == [op |-> op, arg |-> arg]

-----------------------------------------------------------------------------
(* bot.py: PairsTradingBot *)

Pending == "pending"
S1(i) == pairs_by_sector[i][1]
S2(i) == pairs_by_sector[i][2]

\* line 250: pair_id in _positions or pair_id + "_2" in _positions
IsOpen(reg, pair_id) == pair_id \in DOMAIN reg \/ Leg2Id(pair_id) \in DOMAIN reg

\* lines 138-139
Side1(signal) == IF signal = "long_short" THEN "buy" ELSE "sell"

\* leg 2 given the side of leg 1
Side2_as_leg1(signal) == IF signal = "long_short" THEN "buy" ELSE "sell"

\* line 139
Side2(signal) == IF signal = "long_short" THEN "sell" ELSE "buy"

\* lines 189-195 / 208-214: the positions of the pair's two symbols, in list order
ToClose(plist, s1, s2) == SelectSeq(plist, LAMBDA s : s \in {s1, s2})
CloseCalls(syms, n) == [k \in 1..n |-> Call("close_position", syms[k])]

\* only the first leg's entry removed
RemoveBoth_leg1_only(reg, pair_id) == remove_position(reg, pair_id)

\* lines 196-199 / 215-218
RemoveBoth(reg, pair_id) == remove_position(remove_position(reg, pair_id), Leg2Id(pair_id))
RemoveCalls(pair_id, reason) ==
    << Call("remove_position", pair_id), Call("remove_position", Leg2Id(pair_id)),
       Call("log_trade_CLOSE", reason) >>

\* the values of the single components' variables while they are not in use
NoPrev == <<NoneVal, NoneVal>>
NoTask == [i \in PairIdx |-> [pc |-> "idle", oi1 |-> NoneVal, prev |-> NoPrev]]
NoFetch == [k |-> 0, attempt |-> 0, at |-> "idle", events |-> << >>,
            df |-> <<"unset", "unset">>]
NoArgs == [fn |-> "none", zscore |-> 0, zscore_exit_tp |-> 0, zscore_exit_sl |-> 0,
           bars |-> 0, equity |-> 0, price |-> 0, risk_pct |-> 0,
           open_positions_value |-> 0, new_trade_value |-> 0,
           funding_rate_pct |-> NoneVal, side |-> "none"]
NoBook == [s \in Symbols |-> 0]
AuxIdle ==
    /\ oi_cache = << >>
    /\ exchange_positions = NoBook
    /\ task = NoTask
    /\ fetch = NoFetch
    /\ args = NoArgs
    /\ ret = << >>

Init ==
    /\ pc = "connect"
    /\ exit_kind = "none"
    /\ connected = FALSE
    /\ close_called = FALSE
    /\ positions = << >>
    /\ equity = 0
    /\ positions_value = 0
    /\ results = [i \in PairIdx |-> Pending]
    /\ idx = 1
    /\ account_error = FALSE
    /\ res = NoRes
    /\ was_open = FALSE
    /\ calls = << >>
    /\ last_ret = << >>
    /\ seen = << >>
    /\ AuxIdle

\* run(), lines 259-260 and 268-269: connect, or its exception leaves through finally
Connect ==
    /\ pc = "connect"
    /\ \/ /\ connected' = TRUE
          /\ pc' = "cycle"
          /\ UNCHANGED <<exit_kind, close_called>>
       \/ /\ pc' = "done"
          /\ exit_kind' = "connect_error"
          /\ close_called' = TRUE
          /\ UNCHANGED connected
    /\ UNCHANGED <<positions, equity, positions_value, results, idx,
                   account_error, res, was_open, calls, last_ret, seen, aux>>

\* the exception leaves run() without the finally clause
Raise_no_finally(reg, sent) ==
    /\ pc' = "done"
    /\ exit_kind' = "error"
    /\ positions' = reg
    /\ calls' = sent
    /\ UNCHANGED <<close_called, connected, equity, positions_value, results, idx,
                   account_error, res, was_open, last_ret, seen, aux>>

\* an exception that leaves run_cycle: run() has no handler for it, finally closes
Raise(reg, sent) ==
    /\ pc' = "done"
    /\ exit_kind' = "error"
    /\ close_called' = TRUE
    /\ connected' = FALSE
    /\ positions' = reg
    /\ calls' = sent
    /\ UNCHANGED <<equity, positions_value, results, idx, account_error, res,
                   was_open, last_ret, seen, aux>>

\* the for loop goes to its next element; after the last one run_cycle returns
Continue(reg, sent) ==
    /\ pc' = IF idx = NPairs THEN "sleep" ELSE "process"
    /\ idx' = idx + 1
    /\ results' = [results EXCEPT ![idx] = "done"]
    /\ positions' = reg
    /\ calls' = sent
    /\ res' = NoRes
    /\ UNCHANGED <<exit_kind, connected, close_called, equity, positions_value,
                   account_error, was_open, last_ret, seen, aux>>

\* the except branch without its return
AccountFailed_no_return ==
    /\ pc' = "gather"
    /\ account_error' = TRUE
    /\ equity' = 0
    /\ positions_value' = 0

\* run_cycle, lines 223-232: equity and open exposure, or the cycle is given up
AccountFailed ==
    /\ pc' = "sleep"
    /\ account_error' = TRUE
    /\ UNCHANGED <<equity, positions_value>>

AccountFetched ==
    /\ pc' = "gather"
    /\ account_error' = FALSE
    /\ equity' \in EquityVals
    /\ positions_value' \in PositionsValueVals

RunCycleAccount ==
    /\ pc = "cycle"
    /\ \/ AccountFailed
       \/ AccountFetched
    /\ results' = [i \in PairIdx |-> Pending]
    /\ idx' = 1
    /\ res' = NoRes
    /\ was_open' = FALSE
    /\ calls' = << >>
    /\ UNCHANGED <<exit_kind, connected, close_called, positions, last_ret, seen, aux>>

\* analyze_sector as a task of the gather: it raises, returns None or a PairAnalysis
AnalyzeSector(i) ==
    /\ pc = "gather"
    /\ results[i] = Pending
    /\ \E r \in {"exc", "none", "ok"} : results' = [results EXCEPT ![i] = r]
    /\ UNCHANGED <<pc, exit_kind, connected, close_called, positions, equity,
                   positions_value, idx, account_error, res, was_open, calls,
                   last_ret, seen, aux>>

\* line 241: gather(return_exceptions=True) returns once every task is done
GatherJoin ==
    /\ pc = "gather"
    /\ \A i \in PairIdx : results[i] # Pending
    /\ pc' = "process"
    /\ idx' = 1
    /\ UNCHANGED <<exit_kind, connected, close_called, positions, equity,
                   positions_value, results, account_error, res, was_open, calls,
                   last_ret, seen, aux>>

\* lines 243-248: an exception or None is skipped
LoopSkip ==
    /\ pc = "process"
    /\ results[idx] \in {"exc", "none"}
    /\ pc' = IF idx = NPairs THEN "sleep" ELSE "process"
    /\ idx' = idx + 1
    /\ results' = [results EXCEPT ![idx] = "done"]
    /\ calls' = << >>
    /\ res' = NoRes
    /\ was_open' = FALSE
    /\ UNCHANGED <<exit_kind, connected, close_called, positions, equity,
                   positions_value, account_error, last_ret, seen, aux>>

\* lines 249-250: the PairAnalysis of the element and the registry test
NextStepOfLoop(open) == IF open THEN "exits" ELSE "entry"

LoopRead ==
    /\ pc = "process"
    /\ results[idx] = "ok"
    /\ \E a \in AnalysisVals : res' = a
    /\ was_open' = IsOpen(positions, PairIdOf(idx))
    /\ pc' = NextStepOfLoop(was_open')
    /\ calls' = << >>
    /\ UNCHANGED <<exit_kind, connected, close_called, positions, equity,
                   positions_value, results, idx, account_error, last_ret, seen, aux>>

\* the entries removed before the positions are closed
close_and_remove_first(reg, pair_id, syms, k, reason) ==
    IF k > 0
    THEN [reg |-> RemoveBoth(reg, pair_id),
          calls |-> CloseCalls(syms, k) \o <<Call("raised", "close_position")>>,
          raised |-> TRUE]
    ELSE [reg |-> RemoveBoth(reg, pair_id),
          calls |-> CloseCalls(syms, Len(syms)) \o RemoveCalls(pair_id, reason),
          raised |-> FALSE]

\* the closing of lines 188-199 / 207-218 once fetch_positions has returned plist:
\* the k-th close_position call raises (k = 0: none does)
close_and_remove(reg, pair_id, syms, k, reason) ==
    IF k > 0
    THEN [reg |-> reg,
          calls |-> CloseCalls(syms, k) \o <<Call("raised", "close_position")>>,
          raised |-> TRUE]
    ELSE [reg |-> RemoveBoth(reg, pair_id),
          calls |-> CloseCalls(syms, Len(syms)) \o RemoveCalls(pair_id, reason),
          raised |-> FALSE]

\* pre: the calls the handler made before it came to close the pair
ClosePair(reg, reason, pre) ==
    \/ Raise(reg, pre \o <<Call("raised", "fetch_positions")>>)
    \/ \E plist \in PositionLists :
         LET syms == ToClose(plist, S1(idx), S2(idx))
         IN  \E k \in 0..Len(syms) :
               LET o == close_and_remove(reg, PairIdOf(idx), syms, k, reason)
               IN  IF o.raised THEN Raise(o.reg, pre \o o.calls)
                               ELSE Continue(o.reg, pre \o o.calls)

\* line 206: update_trailing(leg 1) or update_trailing(leg 2), the second call
\* only when the first returned None or False
trailing_either(reg, pair_id, price1, price2, zscore) ==
    LET u1 == update_trailing(reg, pair_id, price1, zscore)
    IN  IF u1.ret = "True"
        THEN [hit |-> TRUE, reg |-> u1.reg,
              calls |-> <<Call("update_trailing", pair_id)>>]
        ELSE LET u2 == update_trailing(u1.reg, Leg2Id(pair_id), price2, zscore)
             IN  [hit |-> u2.ret = "True", reg |-> u2.reg,
                  calls |-> << Call("update_trailing", pair_id),
                               Call("update_trailing", Leg2Id(pair_id)) >>]

\* the pair stays open: run_cycle goes on to line 254
StayOpen(reg, sent) ==
    /\ pc' = "entry"
    /\ positions' = reg
    /\ calls' = sent
    /\ UNCHANGED <<exit_kind, connected, close_called, equity, positions_value,
                   results, idx, account_error, res, was_open, last_ret, seen, aux>>

\* check_exits_and_trailing, lines 176-219
CheckExitsAndTrailing ==
    /\ pc = "exits"
    /\ IF res.exit # None
       THEN ClosePair(positions, res.exit, << >>)
       ELSE \E t1 \in TickerVals(S1(idx)) :
              IF t1 = NoneVal
              THEN Raise(positions, <<Call("raised", "fetch_ticker")>>)
              ELSE \E t2 \in TickerVals(S2(idx)) :
                     IF t2 = NoneVal
                     THEN Raise(positions, <<Call("raised", "fetch_ticker")>>)
                     ELSE LET tr == trailing_either(positions, PairIdOf(idx),
                                                    t1[1], t2[1], res.zscore)
                          IN  IF tr.hit
                              THEN ClosePair(tr.reg, "trailing_stop", tr.calls)
                              ELSE StayOpen(tr.reg, tr.calls)

\* the gate without the open-interest flag
FiltersOk_no_oi(a) == a.signal # None /\ a.ema_ok /\ a.rsi_ok

\* line 132
FiltersOk(a) == a.signal # None /\ a.ema_ok /\ a.rsi_ok /\ a.oi_ok

\* line 140: the rates are passed as "fr or 0", the sides as "buy" / "sell"
FundingOk(fr1, side1, fr2, side2) ==
    /\ check_funding_rate(Some(OrZero(fr1)), side1)
    /\ check_funding_rate(Some(OrZero(fr2)), side2)

FundingCalls(s1, fr1, s2, fr2) ==
    << Call("fetch_funding_rate", <<s1, fr1>>), Call("fetch_funding_rate", <<s2, fr2>>) >>

\* lines 144-147: the last prices read from the two tickers
TickerCalls(s1, price1, s2, price2) ==
    << Call("fetch_ticker", <<s1, price1>>), Call("fetch_ticker", <<s2, price2>>) >>

OrderCalls(s1, side1, s2, side2) ==
    << Call("set_leverage", s1), Call("set_leverage", s2),
       Call("create_market_order", <<s1, side1>>),
       Call("create_market_order", <<s2, side2>>) >>

\* each leg registered right after its own order
execute_register_each(reg, i, a, price1, price2, size1, size2, k) ==
    LET side1 == Side1(a.signal)
        side2 == Side2(a.signal)
        sent == OrderCalls(S1(i), side1, S2(i), side2)
        pair_id == PairIdOf(i)
        reg1 == register_position(reg, pair_id, S1(i), side1, price1, a.zscore, size1)
    IN  IF k > 0
        THEN [reg |-> IF k = 4 THEN reg1 ELSE reg,
              calls |-> SubSeq(sent, 1, k) \o <<Call("caught", "Execute error")>>]
        ELSE [reg |-> register_position(reg1, Leg2Id(pair_id), S2(i), side2, price2,
                                        a.zscore, size2),
              calls |-> sent \o << Call("register_position", pair_id),
                                   Call("register_position", Leg2Id(pair_id)),
                                   Call("log_trade_OPEN", "entry") >>]

\* the try block of lines 158-174: the k-th of its four gateway calls raises
\* (k = 0: none does); the exception is caught and nothing is registered
execute(reg, i, a, price1, price2, size1, size2, k) ==
    LET side1 == Side1(a.signal)
        side2 == Side2(a.signal)
        sent == OrderCalls(S1(i), side1, S2(i), side2)
        pair_id == PairIdOf(i)
    IN  IF k > 0
        THEN [reg |-> reg,
              calls |-> SubSeq(sent, 1, k) \o <<Call("caught", "Execute error")>>]
        ELSE [reg |-> register_position(
                        register_position(reg, pair_id, S1(i), side1, price1,
                                          a.zscore, size1),
                        Leg2Id(pair_id), S2(i), side2, price2, a.zscore, size2),
              calls |-> sent \o << Call("register_position", pair_id),
                                   Call("register_position", Leg2Id(pair_id)),
                                   Call("log_trade_OPEN", "entry") >>]

\* line 254 and check_funding_and_execute, lines 124-174
CheckFundingAndExecute ==
    /\ pc = "entry"
    /\ IF ~(res.signal # None /\ res.exit = None) \/ ~FiltersOk(res)
       THEN Continue(positions, << >>)
       ELSE \E fr1 \in FundingVals, fr2 \in FundingVals :
         LET side1 == Side1(res.signal)
             side2 == Side2(res.signal)
             fcalls == FundingCalls(S1(idx), fr1, S2(idx), fr2)
         IN  IF ~FundingOk(fr1, side1, fr2, side2)
             THEN Continue(positions, fcalls)
             ELSE \E t1 \in TickerVals(S1(idx)) :
               IF t1 = NoneVal
               THEN Raise(positions, fcalls \o <<Call("raised", "fetch_ticker")>>)
               ELSE \E t2 \in TickerVals(S2(idx)) :
                 IF t2 = NoneVal
                 THEN Raise(positions, fcalls \o <<Call("raised", "fetch_ticker")>>)
                 ELSE LET price1 == t1[1]
                          price2 == t2[1]
                          size1 == calc_position_size(equity, price1, 0)
                          size2 == calc_position_size(equity, price2, 0)
                          trade_value == size1 * price1 + size2 * price2
                          gcalls == fcalls \o TickerCalls(S1(idx), price1, S2(idx), price2)
                      IN  IF price1 <= 0 \/ price2 <= 0
                          THEN Continue(positions, gcalls)
                          ELSE IF ~check_basket_risk(equity, positions_value, trade_value)
                          THEN Continue(positions, gcalls)
                          ELSE \E k \in 0..4 :
                                 LET o == execute(positions, idx, res, price1, price2,
                                                  size1, size2, k)
                                 IN  Continue(o.reg, gcalls \o o.calls)

\* line 265: the sleep between two cycles ends
Sleep ==
    /\ pc = "sleep"
    /\ pc' = "cycle"
    /\ account_error' = FALSE
    /\ UNCHANGED <<exit_kind, connected, close_called, positions, equity,
                   positions_value, results, idx, res, was_open, calls,
                   last_ret, seen, aux>>

\* lines 266-269: the task is cancelled at an await of run()
Cancel ==
    /\ pc \in {"connect", "cycle", "gather", "process", "exits", "entry", "sleep"}
    /\ pc' = "done"
    /\ exit_kind' = "cancelled"
    /\ close_called' = TRUE
    /\ connected' = FALSE
    /\ UNCHANGED <<positions, equity, positions_value, results, idx,
                   account_error, res, was_open, calls, last_ret, seen, aux>>

Next ==
    \/ Connect
    \/ RunCycleAccount
    \/ \E i \in PairIdx : AnalyzeSector(i)
    \/ GatherJoin
    \/ LoopSkip
    \/ LoopRead
    \/ CheckExitsAndTrailing
    \/ CheckFundingAndExecute
    \/ Sleep
    \/ Cancel

Spec == Init /\ [][Next]_vars

\* the first cycle of a run: run() up to the first sleep.  No pair is in the
\* registry before it, so every pair handled goes to check_funding_and_execute
\* and the registry holds exactly the entries of this cycle.
NextCycle ==
    \/ Connect
    \/ RunCycleAccount
    \/ \E i \in PairIdx : AnalyzeSector(i)
    \/ GatherJoin
    \/ LoopSkip
    \/ LoopRead
    \/ CheckFundingAndExecute
    \/ Cancel

SpecCycle == Init /\ [][NextCycle]_vars

TypeOK ==
    /\ pc \in {"book", "risk", "fetch", "fanout", "pure", "connect", "cycle", "gather", "process", "exits", "entry", "sleep", "done"}
    /\ DOMAIN positions \subseteq LegIds

-----------------------------------------------------------------------------
(* The RiskManager on its own: the registry operations called one at a time,  *)
(* by the orchestrator's entry (lines 163-165) or directly.                   *)

RiskIds == {PairIdOf(1), Leg2Id(PairIdOf(1))}
RiskPrices == {10000, 10835, 10840, 10860, 11000}
RiskEntryPrices == {10000}
RiskZVals == {30, 80}
RiskEquity == 1000000

InBand(z) == Abs(z) <= ZSCORE_TRAILING_ACTIVATION

InitRisk ==
    /\ pc = "risk"
    /\ exit_kind = "none"
    /\ connected = TRUE
    /\ close_called = FALSE
    /\ positions = << >>
    /\ equity = RiskEquity
    /\ positions_value = 0
    /\ results = [i \in PairIdx |-> Pending]
    /\ idx = 1
    /\ account_error = FALSE
    /\ res = NoRes
    /\ was_open = FALSE
    /\ calls = << >>
    /\ last_ret = << >>
    /\ seen = << >>
    /\ AuxIdle

RiskFrame == UNCHANGED <<pc, exit_kind, connected, close_called, equity,
                         positions_value, results, idx, account_error, res,
                         was_open, calls, aux>>

\* seen restricted to the registered ids; a fresh registration has seen nothing
SeenFor(reg, old, fresh) ==
    [k \in DOMAIN reg |-> IF k \in fresh \/ k \notin DOMAIN old
                          THEN [max |-> 0, min |-> 0, any |-> FALSE]
                          ELSE old[k]]

\* the entry of pair 1 as check_funding_and_execute registers it
RiskOpenPair ==
    /\ pc = "risk"
    /\ ~IsOpen(positions, PairIdOf(1))
    /\ \E a \in AnalysisVals, price1 \in RiskEntryPrices, price2 \in RiskEntryPrices :
         /\ FiltersOk(a) /\ a.exit = None
         /\ positions' = execute(positions, 1, a, price1, price2,
                                 calc_position_size(equity, price1, 0),
                                 calc_position_size(equity, price2, 0), 0).reg
         /\ seen' = SeenFor(positions', seen, RiskIds)
    /\ last_ret' = << >>
    /\ RiskFrame

\* register_position called directly
RiskRegister ==
    /\ pc = "risk"
    /\ \E id \in RiskIds, side \in {"long", "short"}, price \in RiskEntryPrices :
         /\ positions' = register_position(positions, id, "SOL", side, price, 0,
                                           calc_position_size(equity, price, 0))
         /\ seen' = SeenFor(positions', seen, {id})
    /\ last_ret' = << >>
    /\ RiskFrame

RiskUpdateTrailing ==
    /\ pc = "risk"
    /\ \E id \in RiskIds, price \in RiskPrices, z \in RiskZVals :
         LET u == update_trailing(positions, id, price, z)
         IN  /\ positions' = u.reg
             /\ last_ret' = [id |-> id, price |-> price, zscore |-> z, ret |-> u.ret,
                             best_before |-> IF id \in DOMAIN positions
                                             THEN positions[id].best_price ELSE 0]
             /\ seen' = IF id \in DOMAIN positions /\ InBand(z)
                        THEN [seen EXCEPT ![id] =
                                [max |-> IF seen[id].any THEN Max(seen[id].max, price) ELSE price,
                                 min |-> IF seen[id].any THEN Min(seen[id].min, price) ELSE price,
                                 any |-> TRUE]]
                        ELSE seen
    /\ RiskFrame

RiskRemove ==
    /\ pc = "risk"
    /\ \E id \in RiskIds :
         /\ positions' = remove_position(positions, id)
         /\ seen' = SeenFor(positions', seen, {})
         \* pop(pair_id, None) returns normally for every id
         /\ last_ret' = [id |-> id, price |-> 0, zscore |-> 0, ret |-> "removed",
                         best_before |-> 0]
    /\ RiskFrame

NextRisk ==
    \/ RiskOpenPair
    \/ RiskRegister
    \/ RiskUpdateTrailing
    \/ RiskRemove

SpecRisk == InitRisk /\ [][NextRisk]_vars

-----------------------------------------------------------------------------
(* The candle fetches of one analysis task: fetch_ohlcv_safe for the first    *)
(* symbol, then for the second, then the test of line 104.                    *)

\* line 83: range(3); line 94: asyncio.sleep(1)
ATTEMPTS == 3
BACKOFF_SEC == 1

\* fetch_ohlcv returns a frame of at least ZSCORE_WINDOW bars or a shorter one,
\* or raises asyncio.TimeoutError or another Exception
OhlcvFrames == {"bars", "short"}
OhlcvErrors == {"timeout", "error"}
Event(k, ev, secs) == [k |-> k, ev |-> ev, secs |-> secs]

\* fetch_ohlcv_safe returns v for the symbol being fetched
returned(f, v) ==
    [f EXCEPT !.df[f.k] = v,
              !.k = f.k + 1,
              !.attempt = 0,
              !.at = IF f.k = 2 THEN "check" ELSE "try"]

\* lines 84-89: the attempt succeeds and its frame is returned
attempt_ok(f, frame) ==
    returned([f EXCEPT !.events = Append(f.events, Event(f.k, frame, 0))], frame)

\* the except branches going on to the next attempt at once
attempt_failed_no_backoff(f, e) ==
    LET g == [f EXCEPT !.events = Append(f.events, Event(f.k, e, 0))]
    IN  IF f.attempt + 1 < ATTEMPTS
        THEN [g EXCEPT !.attempt = f.attempt + 1]
        ELSE returned(g, None)

\* lines 90-93: both except branches log and fall through to the sleep
attempt_failed(f, e) ==
    [f EXCEPT !.events = Append(f.events, Event(f.k, e, 0)), !.at = "sleep"]

\* lines 94-95: the sleep ends; the loop goes on, or is exhausted and None is returned
after_sleep(f) ==
    LET g == [f EXCEPT !.events = Append(f.events, Event(f.k, "sleep", BACKOFF_SEC))]
    IN  IF f.attempt + 1 < ATTEMPTS
        THEN [g EXCEPT !.attempt = f.attempt + 1, !.at = "try"]
        ELSE returned(g, None)

InitFetch ==
    /\ pc = "fetch"
    /\ exit_kind = "none"
    /\ connected = TRUE
    /\ close_called = FALSE
    /\ positions = << >>
    /\ equity = 0
    /\ positions_value = 0
    /\ results = [i \in PairIdx |-> Pending]
    /\ idx = 1
    /\ account_error = FALSE
    /\ res = NoRes
    /\ was_open = FALSE
    /\ calls = << >>
    /\ last_ret = << >>
    /\ seen = << >>
    /\ oi_cache = << >>
    /\ exchange_positions = NoBook
    /\ task = NoTask
    /\ args = NoArgs
    /\ ret = << >>
    /\ fetch = [NoFetch EXCEPT !.k = 1, !.at = "try"]

FetchFrame == UNCHANGED <<pc, exit_kind, connected, close_called, positions, equity,
                          positions_value, idx, account_error, res, was_open, calls,
                          last_ret, seen, oi_cache, task, exchange_positions,
                          args, ret>>

\* one attempt of the loop: the gateway call and its outcome
FetchAttempt ==
    /\ pc = "fetch"
    /\ fetch.at = "try"
    /\ \E o \in OhlcvFrames \cup OhlcvErrors :
         fetch' = IF o \in OhlcvFrames THEN attempt_ok(fetch, o)
                                       ELSE attempt_failed(fetch, o)
    /\ UNCHANGED results
    /\ FetchFrame

FetchBackoff ==
    /\ pc = "fetch"
    /\ fetch.at = "sleep"
    /\ fetch' = after_sleep(fetch)
    /\ UNCHANGED results
    /\ FetchFrame

\* analyze_sector, lines 104-105: without two frames of ZSCORE_WINDOW bars the
\* task returns None; otherwise it goes on to the analysis
AnalyzeSectorCandles ==
    /\ pc = "fetch"
    /\ fetch.at = "check"
    /\ fetch' = [fetch EXCEPT !.at = "done"]
    /\ results' = [results EXCEPT ![1] =
                      IF fetch.df[1] = "bars" /\ fetch.df[2] = "bars" THEN "ok" ELSE "none"]
    /\ FetchFrame

NextFetch ==
    \/ FetchAttempt
    \/ FetchBackoff
    \/ AnalyzeSectorCandles

SpecFetch == InitFetch /\ [][NextFetch]_vars

-----------------------------------------------------------------------------
(* The fan-out of run_cycle: one analyze_sector task per pair, interleaved at *)
(* their awaits, and the join.  A task runs from one await to the next        *)
(* without interruption.                                                      *)

\* fetch_open_interest: None on any error, else the open interest
OIVals == {NoneVal, Some(100), Some(200)}

\* lines 111-112: self._oi_cache[f"{s}_prev"] = oi, also when oi is None
cache_put(cache, sym, oi) ==
    [k \in DOMAIN cache \cup {sym} |-> IF k = sym THEN oi ELSE cache[k]]

\* lines 109-110: self._oi_cache.get(f"{s}_prev")
cache_get(cache, sym) == IF sym \in DOMAIN cache THEN cache[sym] ELSE NoneVal

InitFanOut ==
    /\ pc = "fanout"
    /\ exit_kind = "none"
    /\ connected = TRUE
    /\ close_called = FALSE
    /\ positions = << >>
    /\ equity = 0
    /\ positions_value = 0
    /\ results = [i \in PairIdx |-> Pending]
    /\ idx = 1
    /\ account_error = FALSE
    /\ res = NoRes
    /\ was_open = FALSE
    /\ calls = << >>
    /\ last_ret = << >>
    /\ seen = << >>
    /\ AuxIdle

FanOutFrame == UNCHANGED <<exit_kind, connected, close_called, positions, equity,
                           positions_value, idx, account_error, res, was_open, calls,
                           last_ret, seen, fetch, exchange_positions, args, ret>>

\* lines 234-241: the tasks are created and the gather is awaited
FanOutStart ==
    /\ pc = "fanout"
    /\ pc' = "gather"
    /\ task' = [i \in PairIdx |-> [pc |-> "candles", oi1 |-> NoneVal, prev |-> NoPrev]]
    /\ results' = [i \in PairIdx |-> Pending]
    /\ UNCHANGED oi_cache
    /\ FanOutFrame

\* lines 102-105: the candles of both symbols; without them the task returns None
TaskCandles(i) ==
    /\ pc = "gather"
    /\ task[i].pc = "candles"
    /\ \E frames \in BOOLEAN :
         IF frames
         THEN /\ task' = [task EXCEPT ![i].pc = "oi1"]
              /\ UNCHANGED results
         ELSE /\ task' = [task EXCEPT ![i].pc = "done"]
              /\ results' = [results EXCEPT ![i] = "none"]
    /\ UNCHANGED <<pc, oi_cache>>
    /\ FanOutFrame

\* line 107: oi1 = await fetch_open_interest(s1)
TaskOi1(i) ==
    /\ pc = "gather"
    /\ task[i].pc = "oi1"
    /\ \E oi1 \in OIVals : task' = [task EXCEPT ![i].pc = "oi2", ![i].oi1 = oi1]
    /\ UNCHANGED <<pc, oi_cache, results>>
    /\ FanOutFrame

\* lines 108-122: oi2 arrives, the cache is read and written, the pair is
\* analysed and the task returns its PairAnalysis or raises
TaskFinish(i) ==
    /\ pc = "gather"
    /\ task[i].pc = "oi2"
    /\ \E oi2 \in OIVals, r \in {"ok", "exc"} :
         /\ oi_cache' = cache_put(cache_put(oi_cache, S1(i), task[i].oi1), S2(i), oi2)
         /\ results' = [results EXCEPT ![i] = r]
    \* lines 109-110: oi1_prev and oi2_prev as passed to analyze_pair
    /\ task' = [task EXCEPT ![i] = [pc |-> "done", oi1 |-> NoneVal,
                                    prev |-> <<cache_get(oi_cache, S1(i)),
                                               cache_get(oi_cache, S2(i))>>]]
    /\ UNCHANGED pc
    /\ FanOutFrame

\* line 241: the gather returns; the next cycle starts another fan-out
FanOutJoin ==
    /\ pc = "gather"
    /\ \A i \in PairIdx : task[i].pc = "done"
    /\ pc' = "fanout"
    /\ task' = NoTask
    /\ UNCHANGED <<oi_cache, results>>
    /\ FanOutFrame

NextFanOut ==
    \/ FanOutStart
    \/ \E i \in PairIdx : TaskCandles(i)
    \/ \E i \in PairIdx : TaskOi1(i)
    \/ \E i \in PairIdx : TaskFinish(i)
    \/ FanOutJoin

SpecFanOut == InitFanOut /\ [][NextFanOut]_vars

-----------------------------------------------------------------------------
(* Single calls of the pure functions of the Signal Engine and of the sizing. *)

MaxZ == 320
MaxBars == 22
ZRange == -MaxZ..MaxZ
BarCounts == 0..MaxBars
\* zscore_exit_tp as given to StrategyManager(): the default, and the stop-loss level
ExitTpVals == {ZSCORE_EXIT_TP, ZSCORE_EXIT_SL}
SizingEquities == {-1000000, 0, 1000000, 2000000}
SizingPrices == {-10000, 0, 10000, 20000}
\* risk_pct: 0 stands for 0, 0.0 and None alike, all falsy at line 61
SizingRiskPcts == {-1, 0, 1, 2}
BasketEquities == {-1000000, 0, 1000000}
BasketValues == {0, 1, 100000, 150000, 300000, 400000}
FundingPcts == {NoneVal} \cup {Some(v) : v \in {-7, -6, 0, 6, 7}}
FundingSides == {"long", "short", "buy", "sell"}

PureArgs ==
    {[NoArgs EXCEPT !.fn = "get_zscore_signal", !.zscore = z] : z \in ZRange}
    \cup {[NoArgs EXCEPT !.fn = "check_exit", !.zscore = z, !.zscore_exit_tp = tp,
                         !.zscore_exit_sl = ZSCORE_EXIT_SL] : z \in ZRange, tp \in ExitTpVals}
    \cup {[NoArgs EXCEPT !.fn = "analyze_pair", !.zscore = z, !.bars = n] :
              z \in ZVals, n \in BarCounts}
    \cup {[NoArgs EXCEPT !.fn = "calc_position_size", !.equity = e, !.price = p,
                         !.risk_pct = r] :
              e \in SizingEquities, p \in SizingPrices, r \in SizingRiskPcts}
    \cup {[NoArgs EXCEPT !.fn = "check_basket_risk", !.equity = e,
                         !.open_positions_value = o, !.new_trade_value = n] :
              e \in BasketEquities, o \in BasketValues, n \in BasketValues}
    \cup {[NoArgs EXCEPT !.fn = "check_funding_rate", !.funding_rate_pct = fr,
                         !.side = sd] :
              fr \in FundingPcts, sd \in FundingSides}

InitPure ==
    /\ pc = "pure"
    /\ exit_kind = "none"
    /\ connected = FALSE
    /\ close_called = FALSE
    /\ positions = << >>
    /\ equity = 0
    /\ positions_value = 0
    /\ results = [i \in PairIdx |-> Pending]
    /\ idx = 1
    /\ account_error = FALSE
    /\ res = NoRes
    /\ was_open = FALSE
    /\ calls = << >>
    /\ last_ret = << >>
    /\ seen = << >>
    /\ oi_cache = << >>
    /\ exchange_positions = NoBook
    /\ task = NoTask
    /\ fetch = NoFetch
    /\ args \in PureArgs
    /\ ret = << >>

PureFrame == UNCHANGED <<pc, exit_kind, connected, close_called, positions, equity,
                         positions_value, results, idx, account_error, res, was_open,
                         calls, last_ret, seen, oi_cache, task, fetch,
                         exchange_positions, args>>

ApplyGetZscoreSignal ==
    /\ pc = "pure" /\ ret = << >>
    /\ args.fn = "get_zscore_signal"
    /\ ret' = <<get_zscore_signal(args.zscore)>>
    /\ PureFrame

ApplyCheckExit ==
    /\ pc = "pure" /\ ret = << >>
    /\ args.fn = "check_exit"
    /\ ret' = <<check_exit_of(args.zscore, args.zscore_exit_tp, args.zscore_exit_sl)>>
    /\ PureFrame

ApplyAnalyzePair ==
    /\ pc = "pure" /\ ret = << >>
    /\ args.fn = "analyze_pair"
    /\ ret' = <<analyze_pair_frames(args.bars, args.zscore, TRUE, TRUE, TRUE)>>
    /\ PureFrame

ApplyCalcPositionSize ==
    /\ pc = "pure" /\ ret = << >>
    /\ args.fn = "calc_position_size"
    /\ ret' = <<calc_position_size(args.equity, args.price, args.risk_pct)>>
    /\ PureFrame

ApplyCheckBasketRisk ==
    /\ pc = "pure" /\ ret = << >>
    /\ args.fn = "check_basket_risk"
    /\ ret' = <<check_basket_risk(args.equity, args.open_positions_value,
                                  args.new_trade_value)>>
    /\ PureFrame

ApplyCheckFundingRate ==
    /\ pc = "pure" /\ ret = << >>
    /\ args.fn = "check_funding_rate"
    /\ ret' = <<check_funding_rate(args.funding_rate_pct, args.side)>>
    /\ PureFrame

NextPure ==
    \/ ApplyCheckBasketRisk
    \/ ApplyCheckFundingRate
    \/ ApplyGetZscoreSignal
    \/ ApplyCheckExit
    \/ ApplyAnalyzePair
    \/ ApplyCalcPositionSize

SpecPure == InitPure /\ [][NextPure]_vars

-----------------------------------------------------------------------------
(* The orchestrator's orders against the exchange's position book: entries    *)
(* (bot.py:158-174) and the closing of a pair (bot.py:188-199, 207-218).      *)
(* The exchange keeps one position per symbol, the net of the orders on it.   *)

\* the largest position on one symbol that is followed
MaxContracts == 20

\* create_market_order(symbol, side, amount) when it is filled
OrderEffect(book, sym, side, amount) ==
    [book EXCEPT ![sym] = @ + IF side = "buy" THEN amount ELSE -amount]

\* the "side" field of a fetched position; the source does not fix the
\* exchange's vocabulary, the default of p.get("side", "buy") suggests buy/sell
SideNames == {"buy_sell", "long_short"}
ReportedSide(net, names) ==
    IF names = "buy_sell"
    THEN IF net > 0 THEN "buy" ELSE "sell"
    ELSE IF net > 0 THEN "long" ELSE "short"

\* exchange_handler.py line 234
close_side(side) == IF side = "buy" THEN "sell" ELSE "buy"

\* fetch_positions keeps the positions with contracts != 0; lines 190-192 keep
\* those of the pair's two symbols, in the order of the exchange's list
FetchedToClose(book, s1, s2) ==
    LET held == {s \in {s1, s2} : book[s] # 0}
    IN  {q \in [1..Cardinality(held) -> held] :
            \A a, b \in DOMAIN q : a # b => q[a] # q[b]}

\* lines 193-195: close_position(sym, side, contracts) for the first n of them
RECURSIVE CloseFirst(_, _, _, _)
CloseFirst(book, syms, n, names) ==
    IF n = 0 THEN book
    ELSE LET sym == syms[n]
         IN  OrderEffect(CloseFirst(book, syms, n - 1, names), sym,
                         close_side(ReportedSide(book[sym], names)), Abs(book[sym]))

BookCloseCalls(book, syms, n, names) ==
    [k \in 1..n |-> Call("close_position",
                         <<syms[k], ReportedSide(book[syms[k]], names),
                           Abs(book[syms[k]])>>)]

WithinBook(book) == \A s \in Symbols : Abs(book[s]) <= MaxContracts

InitBook ==
    /\ pc = "book"
    /\ exit_kind = "none"
    /\ connected = TRUE
    /\ close_called = FALSE
    /\ positions = << >>
    /\ equity = RiskEquity
    /\ positions_value = 0
    /\ results = [i \in PairIdx |-> Pending]
    /\ idx = 1
    /\ account_error = FALSE
    /\ res = NoRes
    /\ was_open = FALSE
    /\ calls = << >>
    /\ last_ret = << >>
    /\ seen = << >>
    /\ AuxIdle

BookFrame == UNCHANGED <<equity, positions_value, results, account_error, res,
                         was_open, last_ret, seen, oi_cache, task, fetch, args, ret>>

\* the try block of check_funding_and_execute for pair i: the k-th of its four
\* gateway calls raises (k = 0: none does); the orders before it are filled
BookEntry(i) ==
    /\ pc = "book"
    /\ ~IsOpen(positions, PairIdOf(i))
    /\ \E a \in AnalysisVals, price \in RiskEntryPrices, k \in 0..4 :
         LET size == calc_position_size(equity, price, 0)
             o == execute(positions, i, a, price, price, size, size, k)
             b1 == IF k = 0 \/ k > 3
                   THEN OrderEffect(exchange_positions, S1(i), Side1(a.signal), size)
                   ELSE exchange_positions
             b2 == IF k = 0
                   THEN OrderEffect(b1, S2(i), Side2(a.signal), size)
                   ELSE b1
         IN  /\ FiltersOk(a) /\ a.exit = None
             /\ WithinBook(b2)
             /\ positions' = o.reg
             /\ exchange_positions' = b2
             /\ calls' = o.calls
    /\ idx' = i
    /\ UNCHANGED <<pc, exit_kind, connected, close_called>>
    /\ BookFrame

\* the closing of pair i, lines 188-199 / 207-218: fetch_positions raises, or
\* the k-th close_position raises (k = 0: none does); an exception leaves run()
BookClose(i) ==
    /\ pc = "book"
    /\ IsOpen(positions, PairIdOf(i))
    /\ idx' = i
    /\ \/ /\ calls' = <<Call("raised", "fetch_positions")>>
          /\ pc' = "done" /\ exit_kind' = "error"
          /\ close_called' = TRUE /\ connected' = FALSE
          /\ UNCHANGED <<positions, exchange_positions>>
       \/ \E names \in SideNames,
             syms \in FetchedToClose(exchange_positions, S1(i), S2(i)) :
            \E k \in 0..Len(syms) :
               IF k > 0
               THEN /\ exchange_positions' =
                          CloseFirst(exchange_positions, syms, k - 1, names)
                    /\ calls' = BookCloseCalls(exchange_positions, syms, k, names)
                                   \o <<Call("raised", "close_position")>>
                    /\ pc' = "done" /\ exit_kind' = "error"
                    /\ close_called' = TRUE /\ connected' = FALSE
                    /\ UNCHANGED positions
               ELSE /\ exchange_positions' =
                          CloseFirst(exchange_positions, syms, Len(syms), names)
                    /\ WithinBook(exchange_positions')
                    /\ positions' = RemoveBoth(positions, PairIdOf(i))
                    /\ calls' = BookCloseCalls(exchange_positions, syms, Len(syms), names)
                                   \o RemoveCalls(PairIdOf(i), "closed")
                    /\ UNCHANGED <<pc, exit_kind, connected, close_called>>
    /\ BookFrame

NextBook ==
    \/ \E i \in PairIdx : BookEntry(i)
    \/ \E i \in PairIdx : BookClose(i)

SpecBook == InitBook /\ [][NextBook]_vars

-----------------------------------------------------------------------------
(* Properties *)

HasCall(cs, op) == \E k \in DOMAIN cs : cs[k].op = op
IsEntryCall(c) == c.op \in {"set_leverage", "create_market_order"}
SomeLegOpen(reg, i) == IsOpen(reg, PairIdOf(i))
LegsOf(i) == {PairIdOf(i), Leg2Id(PairIdOf(i))}

\* C1: a pair that was in the registry when its result was processed gets no
\* entry action (set_leverage, create_market_order) in that cycle.
C1_NoEntryForOpenPair ==
    was_open => \A k \in DOMAIN calls : ~IsEntryCall(calls[k])

\* C2: no failure of a Market Gateway call during a cycle leaves run_cycle;
\* run() never ends with an exception raised inside a cycle.
C2_CycleNeverRaises ==
    exit_kind # "error"

\* C3: no order is placed on a leg whose funding rate is against its side:
\* above +max_funding_rate_pct for the bought leg, below -max_funding_rate_pct
\* for the sold leg.
FundingAgainst(fr, side) ==
    /\ fr # NoneVal
    /\ \/ side = "buy" /\ fr[1] > MAX_FUNDING_RATE_PCT
       \/ side = "sell" /\ fr[1] < -MAX_FUNDING_RATE_PCT

C3_NoOrderAgainstFunding ==
    \A j \in DOMAIN calls, k \in DOMAIN calls :
        (calls[j].op = "fetch_funding_rate" /\ calls[k].op = "create_market_order"
            /\ calls[j].arg[1] = calls[k].arg[1])
        => ~FundingAgainst(calls[j].arg[2], calls[k].arg[2])

\* C4: for a leg registered by the orchestrator, an update_trailing call inside
\* the activation band leaves best_price at the maximum price seen (bought leg)
\* or the minimum price seen (sold leg), and reports a stop hit exactly when
\* the price is at or beyond best_price -/+ entry_price * trailing_pct / 100.
C4_OrchestratorLegTrailing ==
    (/\ last_ret # << >>
     /\ last_ret.id \in DOMAIN positions
     /\ InBand(last_ret.zscore)
     /\ positions[last_ret.id].side \in {"buy", "sell"})
    => LET pos == positions[last_ret.id]
           d == (pos.entry_price * TRAILING_STOP_PCT) \div 1000
       IN  IF pos.side = "buy"
           THEN /\ pos.best_price = seen[last_ret.id].max
                /\ (last_ret.ret = "True") <=> (last_ret.price <= pos.best_price - d)
           ELSE /\ pos.best_price = seen[last_ret.id].min
                /\ (last_ret.ret = "True") <=> (last_ret.price >= pos.best_price + d)

\* C5: long position, entry_price 100, trailing_pct 1.5.  An in-band call at
\* price 110 sets best_price to 110; with best_price 110 the next call
\* returns true at 108.35.  The two statements differ at 108.4.
LongAt100(id) ==
    /\ id \in DOMAIN positions
    /\ positions[id].side = "long"
    /\ positions[id].entry_price = 10000

C5_Common ==
    /\ (/\ last_ret # << >>
        /\ LongAt100(last_ret.id)
        /\ InBand(last_ret.zscore)
        /\ last_ret.price = 11000)
       => positions[last_ret.id].best_price = 11000
    /\ (/\ last_ret # << >>
        /\ LongAt100(last_ret.id)
        /\ last_ret.best_before = 11000
        /\ last_ret.price = 10835)
       => last_ret.ret = "True"

AfterBest110(price) ==
    /\ last_ret # << >>
    /\ LongAt100(last_ret.id)
    /\ last_ret.best_before = 11000
    /\ last_ret.price = price

\* C5 as claimed: the call at 108.4 returns false.
C5_TrailingExample ==
    /\ C5_Common
    /\ AfterBest110(10840) => last_ret.ret = "False"

\* C5 amended: the stop price is 110 - 100 * 1.5 / 100 = 108.5, so the call at
\* 108.4 returns true as well; a call at 108.6 returns false.
C5_TrailingExampleAmended ==
    /\ C5_Common
    /\ AfterBest110(10840) => last_ret.ret = "True"
    /\ AfterBest110(10860) => last_ret.ret = "False"

C5_Witness ==
    /\ AfterBest110(10840)
    /\ last_ret.ret = "True"
    /\ positions[last_ret.id].best_price = 11000

\* C6: when fetching equity or the open positions fails, the cycle ends there:
\* no analysis task is started, no order or close is sent, no trade-log event
\* is written and the registry is unchanged.
C6_AccountFailureAbortsCycle ==
    [][account_error' =>
          /\ pc' \in {"sleep", "done"}
          /\ positions' = positions
          /\ calls' = << >>
          /\ \A i \in PairIdx : results'[i] = Pending]_vars

C6_Witness ==
    /\ account_error
    /\ pc = "sleep"
    /\ positions # << >>

\* C7: when one pair's analysis task raised, every other pair whose analysis
\* returned is handled in that same cycle: the cycle never ends with such a
\* pair left unhandled.
C7_OtherPairsHandled ==
    (pc \in {"sleep", "done"} /\ exit_kind # "cancelled")
    => ~(\E i \in PairIdx, j \in PairIdx :
            i # j /\ j # idx /\ results[i] = "exc" /\ results[j] = "ok")

\* C8: a registered pair-leg id is not registered again while it is in the
\* registry; a registered leg keeps its entry price and, once activated, stays
\* activated until it is removed.
C8_NoReRegistration ==
    [][\A id \in DOMAIN positions :
          /\ pc = "entry" =>
               ~(\E k \in DOMAIN calls' :
                    calls'[k].op = "register_position" /\ calls'[k].arg = id)
          /\ id \in DOMAIN positions' =>
               /\ positions'[id].entry_price = positions[id].entry_price
               /\ positions[id].trailing_activated => positions'[id].trailing_activated]_vars

Removed(i) == \E id \in LegsOf(i) : id \in DOMAIN positions /\ id \notin DOMAIN positions'
ClosedSym(cs, sym) ==
    \E k \in DOMAIN cs : cs[k].op = "close_position" /\ cs[k].arg = sym

\* C9 as claimed: the entries of a pair are removed only in a step that sent a
\* close_position for both of its legs and in which no call failed.
C9_RemovedOnlyAfterBothClosed ==
    [][\A i \in PairIdx :
          Removed(i) =>
             /\ ClosedSym(calls', S1(i))
             /\ ClosedSym(calls', S2(i))
             /\ ~HasCall(calls', "raised")]_vars

\* C9 amended: the entries of a pair are removed, both together, only in a
\* step in which fetch_positions and every close_position call that was sent
\* returned; a step in which one of these calls fails leaves the registry as it
\* was.  (A leg for which the gateway reports no position gets no close call
\* and does not keep the entries.)
C9_RemovedOnlyWithoutFailure ==
    [][/\ \A i \in PairIdx :
            Removed(i) =>
               /\ \A id \in LegsOf(i) : id \notin DOMAIN positions'
               /\ ~HasCall(calls', "raised")
               /\ exit_kind' = exit_kind
       /\ (pc = "exits" /\ exit_kind' = "error") =>
               DOMAIN positions' = DOMAIN positions]_vars

C9_Witness ==
    /\ HasCall(calls, "remove_position")
    /\ ~HasCall(calls, "close_position")
    /\ ~SomeLegOpen(positions, idx - 1)

\* C10: when set_leverage or one of the two entry orders fails, the registry
\* after the attempt is the registry before it and no OPEN event is logged.
C10_FailedEntryRegistersNothing ==
    [][(pc = "entry" /\ HasCall(calls', "caught")) =>
          /\ positions' = positions
          /\ ~HasCall(calls', "log_trade_OPEN")
          /\ ~HasCall(calls', "register_position")]_vars

C10_Witness ==
    /\ Len(calls) = 9
    /\ calls[7].op = "create_market_order"
    /\ calls[8].op = "create_market_order"
    /\ calls[9].op = "caught"
    /\ ~SomeLegOpen(positions, idx - 1)

HasCallArg(cs, op, arg) == \E k \in DOMAIN cs : cs[k].op = op /\ cs[k].arg = arg

\* C11: when the analysis of an open pair has exit = tp or sl, the handler of
\* that cycle logs the close with that reason, removes both registry entries
\* and calls update_trailing for neither leg; update_trailing is called for an
\* open pair only when exit is none.  (Steps that end in a cancellation of
\* run() are left out.)
C11_ExitBeforeTrailing ==
    [][(pc = "exits" /\ exit_kind' # "cancelled") =>
          /\ res.exit # None =>
                /\ HasCallArg(calls', "log_trade_CLOSE", res.exit)
                /\ \A id \in LegsOf(idx) : id \notin DOMAIN positions'
                /\ ~HasCall(calls', "update_trailing")
          /\ HasCall(calls', "update_trailing") => res.exit = None]_vars

PricesSeen == UNION {PriceVals(s) : s \in Symbols}
TickerPrice(cs, sym) ==
    CHOOSE p \in PricesSeen : HasCallArg(cs, "fetch_ticker", <<sym, p>>)

\* C12: a step of the entry handler sends an entry order only if the pair's
\* analysis has a signal, no exit and ema_ok, rsi_ok and oi_ok all true, both
\* ticker prices read in that step are > 0, and the exposure with the trade
\* value computed from these prices is within the basket cap.
C12_EntryOnlyWhenGated ==
    [][(pc = "entry" /\ HasCall(calls', "create_market_order")) =>
          /\ res.signal \in {"long_short", "short_long"}
          /\ res.exit = None
          /\ res.ema_ok /\ res.rsi_ok /\ res.oi_ok
          /\ \A sym \in {S1(idx), S2(idx)} :
                \E p \in PricesSeen :
                   p > 0 /\ HasCallArg(calls', "fetch_ticker", <<sym, p>>)
          /\ LET price1 == TickerPrice(calls', S1(idx))
                 price2 == TickerPrice(calls', S2(idx))
                 position_value == (equity * RISK_PER_TRADE_PCT) \div 10
                 trade_value == (position_value \div price1) * price1
                                 + (position_value \div price2) * price2
             IN  (positions_value + trade_value) * 100 <= MAX_BASKET_RISK_PCT * equity]_vars

C12_Witness ==
    /\ HasCall(calls, "log_trade_OPEN")
    /\ HasCallArg(calls, "fetch_ticker", <<"AVAX", 10000>>)
    /\ HasCallArg(calls, "create_market_order", <<"NEAR", "buy">>)
    /\ positions_value = 0

\* C13: the entry orders buy leg 1 and sell leg 2 for long_short and sell leg 1
\* and buy leg 2 for short_long, the legs are registered with these sides, and
\* in every registry state the two registered legs of a pair have opposite
\* sides.
C13_OppositeSides ==
    [][/\ (pc = "entry" /\ HasCall(calls', "create_market_order")) =>
            LET bought == IF res.signal = "long_short" THEN S1(idx) ELSE S2(idx)
                sold == IF res.signal = "long_short" THEN S2(idx) ELSE S1(idx)
                id1 == PairIdOf(idx)
            IN  /\ \A k \in DOMAIN calls' :
                      calls'[k].op = "create_market_order" =>
                         calls'[k].arg \in {<<bought, "buy">>, <<sold, "sell">>}
                /\ HasCall(calls', "register_position") =>
                      /\ positions'[id1].symbol = S1(idx)
                      /\ positions'[Leg2Id(id1)].symbol = S2(idx)
                      /\ positions'[id1].side =
                            (IF S1(idx) = bought THEN "buy" ELSE "sell")
                      /\ positions'[Leg2Id(id1)].side =
                            (IF S2(idx) = bought THEN "buy" ELSE "sell")
       /\ \A i \in PairIdx :
            LegsOf(i) \subseteq DOMAIN positions' =>
               {positions'[id].side : id \in LegsOf(i)} = {"buy", "sell"}]_vars

C13_Witness ==
    /\ HasCall(calls, "register_position")
    /\ LegsOf(2) \subseteq DOMAIN positions
    /\ positions[PairIdOf(2)].side = "sell"
    /\ positions[Leg2Id(PairIdOf(2))].side = "buy"
    /\ positions[PairIdOf(2)].entry_zscore > ZSCORE_ENTRY_THRESHOLD

\* C15: whenever run() has finished -- cancelled during a cycle or during the
\* sleep, or ended by an exception of connect or of run_cycle -- exchange.close()
\* has been called.
C15_CloseOnEveryExit ==
    pc = "done" =>
        /\ close_called
        /\ exit_kind \in {"cancelled", "connect_error", "error"}

C15_Witness ==
    /\ pc = "done"
    /\ exit_kind = "error"
    /\ close_called
    /\ HasCallArg(calls, "raised", "close_position")

EventsOf(k) == SelectSeq(fetch.events, LAMBDA e : e.k = k)
IsAttempt(e) == e.ev # "sleep"
IsFailure(e) == e.ev \in {"timeout", "error"}
FailuresOf(k) == Len(SelectSeq(EventsOf(k), IsFailure))

\* C14: each fetch_ohlcv_safe call makes at most 3 gateway calls, makes none
\* after a successful one and returns that one's frame, sleeps 1 second after
\* a failed attempt before anything else, and after 3 failed attempts
\* (timeouts or errors) returns None; the task whose fetch returned None
\* returns None, so the pair is skipped.
C14_FetchRetries ==
    \A k \in {1, 2} :
        LET ev == EventsOf(k)
        IN  /\ Len(SelectSeq(ev, IsAttempt)) <= 3
            /\ \A j \in 1..Len(ev) :
                  /\ ~IsAttempt(ev[j]) => ev[j].secs = 1
                  /\ (IsAttempt(ev[j]) /\ ~IsFailure(ev[j])) =>
                        /\ j = Len(ev)
                        /\ fetch.k > k
                        /\ fetch.df[k] = ev[j].ev
                  /\ (IsFailure(ev[j]) /\ j < Len(ev)) => ~IsAttempt(ev[j + 1])
                  /\ (~IsAttempt(ev[j]) /\ j < Len(ev)) => IsAttempt(ev[j + 1])
                  /\ IsFailure(ev[j]) => (fetch.k = k /\ fetch.at = "sleep") \/ j < Len(ev)
            /\ (fetch.k > k /\ FailuresOf(k) = 3) => fetch.df[k] = None
            /\ fetch.df[k] = None => (fetch.k > k /\ FailuresOf(k) = 3)
            /\ (fetch.at = "done" /\ fetch.df[k] = None) => results[1] = "none"

C14_Witness ==
    /\ fetch.at = "done"
    /\ FailuresOf(1) = 3
    /\ fetch.df = <<None, "bars">>
    /\ FailuresOf(2) = 2
    /\ results[1] = "none"

\* the mutable state of the bot that outlives a task: the open-interest cache,
\* the position registry and the gateway connection
Shared == <<oi_cache, positions, connected>>

\* C16: no step of an analysis task between the start of the fan-out and the
\* join changes state shared with another task or with later steps.
C16_TasksWriteNothingShared ==
    [][(pc = "gather" /\ pc' = "gather") => Shared' = Shared]_vars

Returned(fn) == args.fn = fn /\ ret # << >>

\* C17: get_zscore_signal(z) is short_long iff z > 1.2, long_short iff
\* z < -1.2, and none for every z with -1.2 <= z <= 1.2.
C17_SignalThresholds ==
    Returned("get_zscore_signal") =>
        /\ (ret[1] = "short_long") <=> (args.zscore > 120)
        /\ (ret[1] = "long_short") <=> (args.zscore < -120)
        /\ (-120 <= args.zscore /\ args.zscore <= 120) => ret[1] = None

C17_Witness ==
    /\ Returned("get_zscore_signal")
    /\ args.zscore = 120
    /\ ret[1] = None

InTpWindow == Abs(args.zscore - args.zscore_exit_tp) < 10
BeyondSl == args.zscore >= args.zscore_exit_sl \/ args.zscore <= -args.zscore_exit_sl

\* C18: check_exit(z) is tp whenever |z - tp_target| < 0.1, also when z is at
\* or beyond the stop-loss threshold; it is sl when the tp window is not met
\* and z >= sl_threshold or z <= -sl_threshold; it is none otherwise.
C18_ExitPriority ==
    Returned("check_exit") =>
        /\ InTpWindow => ret[1] = "tp"
        /\ (~InTpWindow /\ BeyondSl) => ret[1] = "sl"
        /\ (~InTpWindow /\ ~BeyondSl) => ret[1] = None

C18_Witness ==
    /\ Returned("check_exit")
    /\ args.zscore_exit_tp = 300
    /\ args.zscore = 305
    /\ BeyondSl
    /\ ret[1] = "tp"

\* C19: for two frames of fewer bars than the z-score window, analyze_pair
\* returns signal = none and exit = none.
C19_ShortSeriesNeutral ==
    (Returned("analyze_pair") /\ args.bars < 20) =>
        /\ ret[1].signal = None
        /\ ret[1].exit = None

\* C20: calc_position_size(equity, price, risk_pct) is
\* ((equity * risk_pct / 100 / 2) / 0.05) / price when price > 0 and that value
\* is not negative, and 0 otherwise.
C20_PositionSize ==
    Returned("calc_position_size") =>
        LET position_value == (args.equity * args.risk_pct) \div 10
        IN  ret[1] = IF args.price > 0 /\ position_value >= 0
                     THEN position_value \div args.price
                     ELSE 0

\* C21: check_basket_risk(equity, open_value, new_trade_value) is true iff
\* (open_value + new_trade_value) / equity * 100 <= 40 when equity > 0, and is
\* true for every input when equity <= 0; (10000, 3000, 1500) gives false.
C21_BasketRisk ==
    Returned("check_basket_risk") =>
        /\ args.equity > 0 =>
              (ret[1] <=> (args.open_positions_value + args.new_trade_value) * 100
                             <= 40 * args.equity)
        /\ args.equity <= 0 => ret[1]
        /\ (args.equity = 1000000 /\ args.open_positions_value = 300000
               /\ args.new_trade_value = 150000) => ~ret[1]

C21_Witness ==
    /\ Returned("check_basket_risk")
    /\ args.equity = 1000000
    /\ args.open_positions_value + args.new_trade_value = 400000
    /\ ret[1]

RemoveStep == last_ret' # << >> /\ last_ret'.ret = "removed"
UpdateStep == last_ret' # << >> /\ last_ret'.ret # "removed"

\* C23: remove_position(id) returns normally for every registry and every id,
\* leaves every other id's entry unchanged, and a second remove_position(id)
\* gives the same registry as the first.
C23_RemoveIdempotent ==
    [][RemoveStep =>
         LET id == last_ret'.id
         IN  /\ DOMAIN positions' = DOMAIN positions \ {id}
             /\ \A k \in DOMAIN positions' : positions'[k] = positions[k]
             /\ remove_position(positions', id) = positions']_vars

C23_Witness ==
    /\ last_ret # << >>
    /\ last_ret.ret = "removed"
    /\ last_ret.id = PairIdOf(1)
    /\ Leg2Id(PairIdOf(1)) \in DOMAIN positions

\* C24: update_trailing on an id that is not in the registry returns None
\* and leaves the registry unchanged.
C24_UnknownIdIgnored ==
    [][(UpdateStep /\ last_ret'.id \notin DOMAIN positions) =>
         /\ last_ret'.ret = None
         /\ positions' = positions]_vars

C24_Witness ==
    /\ last_ret # << >>
    /\ last_ret.ret = None
    /\ last_ret.id \notin DOMAIN positions
    /\ positions # << >>

\* C25: an update_trailing call on a registered position never clears
\* trailing_activated; a call outside the activation band leaves best_price
\* unchanged, and for an activated long or short position it reports a stop
\* hit exactly when the price is at or beyond that best_price -/+ the stop
\* distance.
C25_StickyActivation ==
    [][(UpdateStep /\ last_ret'.id \in DOMAIN positions) =>
         LET id == last_ret'.id
             old == positions[id]
             new == positions'[id]
             d == (old.entry_price * TRAILING_STOP_PCT) \div 1000
         IN  /\ old.trailing_activated => new.trailing_activated
             /\ ~InBand(last_ret'.zscore) =>
                   /\ new.best_price = old.best_price
                   /\ new.trailing_activated = old.trailing_activated
                   /\ (old.trailing_activated /\ old.side = "long") =>
                         ((last_ret'.ret = "True") <=>
                              (last_ret'.price <= old.best_price - d))
                   /\ (old.trailing_activated /\ old.side = "short") =>
                         ((last_ret'.ret = "True") <=>
                              (last_ret'.price >= old.best_price + d))]_vars

C25_Witness ==
    /\ last_ret # << >>
    /\ last_ret.ret = "True"
    /\ ~InBand(last_ret.zscore)
    /\ last_ret.id \in DOMAIN positions
    /\ positions[last_ret.id].side = "long"
    /\ positions[last_ret.id].best_price = 11000
    /\ last_ret.price = 10835

\* the notional of the registered legs: amount * entry_price, summed
RECURSIVE NotionalOf(_, _)
NotionalOf(reg, ids) ==
    IF ids = {} THEN 0
    ELSE LET id == CHOOSE x \in ids : TRUE
         IN  reg[id].amount * reg[id].entry_price + NotionalOf(reg, ids \ {id})

\* C26: within one cycle the exposure open at cycle start plus the notional of
\* the entries opened during the cycle stays within max_basket_risk_pct of
\* equity (equity > 0).
C26_BasketCapWithinCycle ==
    equity > 0 =>
        (positions_value + NotionalOf(positions, DOMAIN positions)) * 100
            <= MAX_BASKET_RISK_PCT * equity

\* C27: between the handling of two pairs and at every cycle boundary, the
\* leg-1 id of a pair is in the registry iff its leg-2 id is.
C27_LegsTogether ==
    \A i \in PairIdx :
        PairIdOf(i) \in DOMAIN positions <=> Leg2Id(PairIdOf(i)) \in DOMAIN positions

\* a pair has been entered, another one entered and closed again
C27_Witness ==
    /\ pc = "process"
    /\ PairIdOf(1) \in DOMAIN positions
    /\ Leg2Id(PairIdOf(1)) \in DOMAIN positions
    /\ PairIdOf(2) \notin DOMAIN positions
    /\ HasCallArg(calls, "remove_position", Leg2Id(PairIdOf(2)))

\* the k-th call of the log is an entry order that returned: the handler went
\* on to another call instead of to its except branch
OrderFilled(cs, k) ==
    /\ cs[k].op = "create_market_order"
    /\ k < Len(cs)
    /\ cs[k + 1].op # "caught"

\* the registry id of the leg of pair i on symbol s
LegIdOn(i, s) == IF s = S1(i) THEN PairIdOf(i) ELSE Leg2Id(PairIdOf(i))

\* C28: after an entry attempt, each leg whose entry create_market_order
\* succeeded has its pair-leg id in the registry, also when the second leg's
\* order fails after the first leg's order succeeded.
C28_FilledLegsTracked ==
    [][pc = "entry" =>
         \A k \in DOMAIN calls' :
             OrderFilled(calls', k) =>
                 LegIdOn(idx, calls'[k].arg[1]) \in DOMAIN positions']_vars

\* the signed contracts that the registered leg of pair i on symbol s stands for
LegContracts(reg, i, s) ==
    LET pos == reg[LegIdOn(i, s)]
    IN  IF pos.side = "buy" THEN pos.amount ELSE -pos.amount

BothLegs(reg, i) == PairIdOf(i) \in DOMAIN reg /\ Leg2Id(PairIdOf(i)) \in DOMAIN reg

\* C29: when pair P is closed, only the exchange positions of P's own two
\* legs are closed: a registered pair Q that shares a symbol with P keeps its
\* exchange position on that symbol, and Q's registry entries are unchanged.
C29_CloseOnlyOwnLegs ==
    [][\A p \in PairIdx :
         (pc = "book" /\ BothLegs(positions, p) /\ ~IsOpen(positions', PairIdOf(p))) =>
             \A q \in PairIdx \ {p} :
                 BothLegs(positions, q) =>
                     /\ BothLegs(positions', q)
                     /\ positions'[PairIdOf(q)] = positions[PairIdOf(q)]
                     /\ positions'[Leg2Id(PairIdOf(q))] = positions[Leg2Id(PairIdOf(q))]
                     /\ \A s \in {S1(p), S2(p)} \cap {S1(q), S2(q)} :
                            exchange_positions'[s] =
                                exchange_positions[s] - LegContracts(positions, p, s)]_vars

\* task j has run lines 111-112 in the cycle under way
WroteCache(j) == task[j].pc = "done" /\ results[j] \in {"ok", "exc"}

SharedSymbols(i, j) == {S1(i), S2(i)} \cap {S1(j), S2(j)}

\* C30: the previous-OI value an analysis task passes for a symbol is the one
\* the cache held when the cycle's fan-out started: no other task of the same
\* cycle has stored its own sample for that symbol before the task reads it.
C30_PrevOiFromEarlierCycle ==
    [][\A i \in PairIdx :
         (pc = "gather" /\ task[i].pc = "oi2" /\ task'[i].pc = "done") =>
             /\ task'[i].prev = <<cache_get(oi_cache, S1(i)), cache_get(oi_cache, S2(i))>>
             /\ \A j \in PairIdx \ {i} :
                    SharedSymbols(i, j) # {} => ~WroteCache(j)]_vars

====
